---- MODULE Spec2Model ----
(***************************************************************************)
(* Camera projections of bevy_render (camera/projection.rs): the three     *)
(* implementations of the CameraProjection trait, PerspectiveProjection,   *)
(* OrthographicProjection and ScaledOrthographicProjection.                *)
(*                                                                         *)
(* The scene holds two cameras built from one configuration; their         *)
(* viewport-derived fields start out arbitrary and each camera receives    *)
(* its own sequence of update / get_projection_matrix / depth_calculation  *)
(* calls.                                                                  *)
(*                                                                         *)
(* f32 values are modelled as sign, odd significand and binary exponent    *)
(* (value = m * 2^e), with +-0, +-infinity and NaN, and every arithmetic   *)
(* result is rounded to the 24 significand bits of f32 (round to nearest,  *)
(* ties to even).  The exponent range of f32 is not modelled: the inputs   *)
(* enumerated below keep every result far inside the normal range.  NaN    *)
(* is one value (its sign and payload are not modelled).                   *)
(***************************************************************************)
EXTENDS Integers, Naturals, Sequences, FiniteSets, TLC

VARIABLES cam, created, lastUpdate, last, ret, repeat

vars == <<cam, created, lastUpdate, last, ret, repeat>>

\* Largest small viewport dimension fed to update (dimensions 0..MaxDim).
MaxDim == 1

\* Largest scale of a ScaledOrthographicProjection (scales 1.0 and MaxScale).
MaxScale == 3

\* Significand bits of an f32 (1 implicit + 23 stored).
MantissaBits == 24

Cameras == {1, 2}

----------------------------------------------------------------------------
\* f32 values

NaN == [k |-> "nan", neg |-> FALSE, m |-> 0, e |-> 0]

Inf(neg) == [k |-> "inf", neg |-> neg, m |-> 0, e |-> 0]

RECURSIVE Fin(_, _, _)
\* The finite value (-1)^neg * m * 2^e in canonical form (m odd, or m = 0).
Fin(neg, m, e) ==
    IF m = 0 THEN [k |-> "fin", neg |-> neg, m |-> 0, e |-> 0]
    ELSE IF m % 2 = 0 THEN Fin(neg, m \div 2, e + 1)
    ELSE [k |-> "fin", neg |-> neg, m |-> m, e |-> e]

\* An integer literal such as 0.0, 2.0 or 1000.0.
F(n) == IF n < 0 THEN Fin(TRUE, 0 - n, 0) ELSE Fin(FALSE, n, 0)

IsZero(x) == x.k = "fin" /\ x.m = 0

IsFinite(x) == x.k = "fin"

IsPositive(x) == x.k = "fin" /\ x.m > 0 /\ ~x.neg

RECURSIVE ExcessBits(_)
\* Number of bits by which m exceeds the significand.
ExcessBits(m) == IF m < 2^MantissaBits THEN 0 ELSE 1 + ExcessBits(m \div 2)

\* m * 2^e rounded to MantissaBits bits, nearest, ties to even.
RoundNearestEven(neg, m, e) ==
    LET n == ExcessBits(m) IN
    IF n = 0 THEN Fin(neg, m, e)
    ELSE LET q == m \div (2^n)
             r == m % (2^n)
             half == 2^(n - 1)
             up == r > half \/ (r = half /\ q % 2 = 1)
         IN Fin(neg, IF up THEN q + 1 ELSE q, e + n)

\* Unary minus: flips the sign bit.
FNeg(x) == IF x.k = "nan" THEN NaN ELSE [x EXCEPT !.neg = ~x.neg]

\* f32 multiplication.
FMul(x, y) ==
    LET neg == (x.neg /= y.neg) IN
    IF x.k = "nan" \/ y.k = "nan" THEN NaN
    ELSE IF x.k = "inf" \/ y.k = "inf"
         THEN IF IsZero(x) \/ IsZero(y) THEN NaN ELSE Inf(neg)
    ELSE RoundNearestEven(neg, x.m * y.m, x.e + y.e)

RECURSIVE DivSteps(_, _, _, _)
\* Long division: q = floor(num * 2^s / den) with remainder r, extended one
\* bit at a time until q has MantissaBits + 1 bits or the division is exact.
DivSteps(q, r, den, s) ==
    IF r = 0 \/ q >= 2^MantissaBits THEN [q |-> q, r |-> r, s |-> s]
    ELSE DivSteps(2 * q + (IF 2 * r >= den THEN 1 ELSE 0),
                  (2 * r) % den, den, s + 1)

\* f32 division.
FDiv(x, y) ==
    LET neg == (x.neg /= y.neg) IN
    IF x.k = "nan" \/ y.k = "nan" THEN NaN
    ELSE IF x.k = "inf" THEN (IF y.k = "inf" THEN NaN ELSE Inf(neg))
    ELSE IF y.k = "inf" THEN Fin(neg, 0, 0)
    ELSE IF IsZero(y) THEN (IF IsZero(x) THEN NaN ELSE Inf(neg))
    ELSE IF IsZero(x) THEN Fin(neg, 0, 0)
    ELSE LET d == DivSteps(x.m \div y.m, x.m % y.m, y.m, 0)
             ex == x.e - y.e - d.s
         IN IF d.q < 2^MantissaBits THEN Fin(neg, d.q, ex)
            ELSE LET q == d.q \div 2
                     g == d.q % 2
                     up == g = 1 /\ (d.r > 0 \/ q % 2 = 1)
                 IN Fin(neg, IF up THEN q + 1 ELSE q, ex + 1)

\* std::f32::consts::PI / 4.0 = 0x3F490FDB.
PI_4 == Fin(FALSE, 13176795, 0 - 24)

----------------------------------------------------------------------------
\* The projection types and the CameraProjection implementations

WindowOrigin == {"Center", "BottomLeft"}

BaseAxis == {"Vertical", "Horizontal"}

\* Mat4::perspective_rh(fov, aspect_ratio, near, far), as the call made.
perspective_rh(fov, aspect_ratio, near, far) ==
    [fn |-> "perspective_rh", args |-> <<fov, aspect_ratio, near, far>>]

\* Mat4::orthographic_rh(left, right, bottom, top, near, far), as the call made.
orthographic_rh(left, right, bottom, top, near, far) ==
    [fn |-> "orthographic_rh", args |-> <<left, right, bottom, top, near, far>>]

PerspectiveProjection_default ==
    [variant |-> "PerspectiveProjection",
     fov |-> PI_4, near |-> F(1), far |-> F(1000), aspect_ratio |-> F(1)]

PerspectiveProjection_get_projection_matrix(self) ==
    perspective_rh(self.fov, self.aspect_ratio, self.near, self.far)

\* Slip: the ratio is taken the wrong way round.
PerspectiveUpdateInverted(self, width, height) ==
    [self EXCEPT !.aspect_ratio = FDiv(height, width)]

\* Slip: a compound assignment (/=) in place of the assignment.
PerspectiveUpdateCompound(self, width, height) ==
    [self EXCEPT !.aspect_ratio = FDiv(self.aspect_ratio, FDiv(width, height))]

PerspectiveProjection_update(self, width, height) ==
    [self EXCEPT !.aspect_ratio = FDiv(width, height)]

\* Slip: a degenerate (non-finite) aspect ratio switches the depth mode.
DepthByAspect(self) ==
    IF IsFinite(self.aspect_ratio) THEN "Distance" ELSE "ZDifference"

PerspectiveProjection_depth_calculation(self) == "Distance"

OrthographicProjection_default ==
    [variant |-> "OrthographicProjection",
     left |-> F(0), right |-> F(0), bottom |-> F(0), top |-> F(0),
     near |-> F(0), far |-> F(1000), window_origin |-> "Center"]

OrthographicProjection_get_projection_matrix(self) ==
    orthographic_rh(self.left, self.right, self.bottom, self.top,
                    self.near, self.far)

\* Slip: top and bottom exchanged in the Center arm.
OrthographicUpdateFlipped(self, width, height) ==
    IF self.window_origin = "Center"
    THEN LET half_width == FDiv(width, F(2))
             half_height == FDiv(height, F(2))
         IN [self EXCEPT !.left = FNeg(half_width),
                         !.right = half_width,
                         !.top = FNeg(half_height),
                         !.bottom = half_height]
    ELSE [self EXCEPT !.left = F(0),
                      !.right = width,
                      !.top = height,
                      !.bottom = F(0)]

\* Slip: the update also resets the near plane.
OrthographicUpdateResetsNear(self, width, height) ==
    IF self.window_origin = "Center"
    THEN LET half_width == FDiv(width, F(2))
             half_height == FDiv(height, F(2))
         IN [self EXCEPT !.left = FNeg(half_width),
                         !.right = half_width,
                         !.top = half_height,
                         !.bottom = FNeg(half_height),
                         !.near = F(0)]
    ELSE [self EXCEPT !.left = F(0),
                      !.right = width,
                      !.top = height,
                      !.bottom = F(0),
                      !.near = F(0)]

\* Slip: the BottomLeft arm leaves left and bottom as they were.
OrthographicUpdateStale(self, width, height) ==
    IF self.window_origin = "Center"
    THEN LET half_width == FDiv(width, F(2))
             half_height == FDiv(height, F(2))
         IN [self EXCEPT !.left = FNeg(half_width),
                         !.right = half_width,
                         !.top = half_height,
                         !.bottom = FNeg(half_height)]
    ELSE [self EXCEPT !.right = width,
                      !.top = height]

OrthographicProjection_update(self, width, height) ==
    IF self.window_origin = "Center"
    THEN LET half_width == FDiv(width, F(2))
             half_height == FDiv(height, F(2))
         IN [self EXCEPT !.left = FNeg(half_width),
                         !.right = half_width,
                         !.top = half_height,
                         !.bottom = FNeg(half_height)]
    ELSE [self EXCEPT !.left = F(0),
                      !.right = width,
                      !.top = height,
                      !.bottom = F(0)]

OrthographicProjection_depth_calculation(self) == "ZDifference"

ScaledOrthographicProjection_default ==
    [variant |-> "ScaledOrthographicProjection",
     scale |-> F(1), aspect_ratio |-> F(1), near |-> F(0), far |-> F(1000),
     window_origin |-> "Center", base_axis |-> "Vertical"]

\* Slip: the Center arms pass the positive extent on both sides of the
\* horizontal axis.
ScaledMatrixUnsigned(self) ==
    CASE self.window_origin = "Center" /\ self.base_axis = "Vertical" ->
           orthographic_rh(FMul(self.aspect_ratio, self.scale),
                           FMul(self.aspect_ratio, self.scale),
                           FNeg(self.scale),
                           self.scale,
                           self.near, self.far)
      [] self.window_origin = "BottomLeft" /\ self.base_axis = "Vertical" ->
           orthographic_rh(F(0),
                           FMul(self.aspect_ratio, self.scale),
                           F(0),
                           self.scale,
                           self.near, self.far)
      [] self.window_origin = "Center" /\ self.base_axis = "Horizontal" ->
           orthographic_rh(self.scale,
                           self.scale,
                           FMul(FNeg(self.aspect_ratio), self.scale),
                           FMul(self.aspect_ratio, self.scale),
                           self.near, self.far)
      [] self.window_origin = "BottomLeft" /\ self.base_axis = "Horizontal" ->
           orthographic_rh(F(0),
                           self.scale,
                           F(0),
                           FMul(self.aspect_ratio, self.scale),
                           self.near, self.far)

ScaledOrthographicProjection_get_projection_matrix(self) ==
    CASE self.window_origin = "Center" /\ self.base_axis = "Vertical" ->
           orthographic_rh(FMul(FNeg(self.aspect_ratio), self.scale),
                           FMul(self.aspect_ratio, self.scale),
                           FNeg(self.scale),
                           self.scale,
                           self.near, self.far)
      [] self.window_origin = "BottomLeft" /\ self.base_axis = "Vertical" ->
           orthographic_rh(F(0),
                           FMul(self.aspect_ratio, self.scale),
                           F(0),
                           self.scale,
                           self.near, self.far)
      [] self.window_origin = "Center" /\ self.base_axis = "Horizontal" ->
           orthographic_rh(FNeg(self.scale),
                           self.scale,
                           FMul(FNeg(self.aspect_ratio), self.scale),
                           FMul(self.aspect_ratio, self.scale),
                           self.near, self.far)
      [] self.window_origin = "BottomLeft" /\ self.base_axis = "Horizontal" ->
           orthographic_rh(F(0),
                           self.scale,
                           F(0),
                           FMul(self.aspect_ratio, self.scale),
                           self.near, self.far)

\* Slip: base_axis is ignored.
ScaledUpdateIgnoresAxis(self, width, height) ==
    [self EXCEPT !.aspect_ratio = FDiv(width, height)]

\* Slip: a zero dimension is replaced by one.
ScaledUpdateClamped(self, width, height) ==
    LET w == IF IsZero(width) THEN F(1) ELSE width
        h == IF IsZero(height) THEN F(1) ELSE height
    IN [self EXCEPT !.aspect_ratio =
          IF self.base_axis = "Vertical" THEN FDiv(w, h) ELSE FDiv(h, w)]

ScaledOrthographicProjection_update(self, width, height) ==
    [self EXCEPT !.aspect_ratio =
        IF self.base_axis = "Vertical" THEN FDiv(width, height)
                                       ELSE FDiv(height, width)]

ScaledOrthographicProjection_depth_calculation(self) == "ZDifference"

----------------------------------------------------------------------------
\* Values the model enumerates

\* Viewport sizes: the small dimensions (0 included) and the sizes of the
\* documented scenarios.
Dims ==
    ({F(n) : n \in 0..MaxDim} \X {F(n) : n \in 0..MaxDim})
    \cup {<<F(800), F(600)>>, <<F(1920), F(1080)>>, <<F(1000), F(500)>>}

Scales == {F(1), F(MaxScale)}

\* Aspect ratios a projection may hold before its first update.
PriorAspects == {F(1), Fin(FALSE, 5, 0 - 1)}

\* Side bounds an OrthographicProjection may hold before its first update.
PriorBounds ==
    {[left |-> F(0), right |-> F(0), bottom |-> F(0), top |-> F(0)],
     [left |-> F(0 - 7), right |-> F(9), bottom |-> F(0 - 4), top |-> F(6)]}

PerspectiveConfigs ==
    {[PerspectiveProjection_default EXCEPT !.fov = fn[1], !.near = fn[2]] :
        fn \in {<<PI_4, F(1)>>, <<F(1), Fin(FALSE, 1, 0 - 1)>>}}

OrthographicConfigs ==
    {[OrthographicProjection_default EXCEPT !.window_origin = o, !.near = n] :
        o \in WindowOrigin, n \in {F(0), F(0 - 1)}}

ScaledConfigs ==
    {[ScaledOrthographicProjection_default EXCEPT
        !.window_origin = o, !.base_axis = b, !.scale = s] :
        o \in WindowOrigin, b \in BaseAxis, s \in Scales}

\* The projections that share p's configuration fields and hold any prior
\* value in the viewport-derived ones.
WithPriorState(p) ==
    IF p.variant = "OrthographicProjection"
    THEN {[p EXCEPT !.left = d.left, !.right = d.right,
                    !.bottom = d.bottom, !.top = d.top] : d \in PriorBounds}
    ELSE {[p EXCEPT !.aspect_ratio = a] : a \in PriorAspects}

NoUpdate == [set |-> FALSE, w |-> F(0), h |-> F(0)]

NoCall == [op |-> "new", cam |-> 0]

NoReturn == [fn |-> "none"]

----------------------------------------------------------------------------
\* The system: two cameras, each owning one projection value

Init ==
    /\ \E p \in PerspectiveConfigs \cup OrthographicConfigs \cup ScaledConfigs :
         cam \in [Cameras -> WithPriorState(p)]
    /\ created = cam
    /\ lastUpdate = [c \in Cameras |-> NoUpdate]
    /\ last = NoCall
    /\ ret = NoReturn
    /\ repeat = FALSE

\* The bookkeeping of a call of update(width, height) on camera c.
Updated(c, width, height) ==
    /\ lastUpdate' = [lastUpdate EXCEPT ![c] = [set |-> TRUE, w |-> width, h |-> height]]
    /\ last' = [op |-> "update", cam |-> c]
    /\ repeat' = (/\ last = [op |-> "update", cam |-> c]
                  /\ lastUpdate[c] = [set |-> TRUE, w |-> width, h |-> height])
    /\ ret' = NoReturn
    /\ UNCHANGED created

\* The bookkeeping of a call on camera c that only reads the projection.
Queried(c, op) ==
    /\ last' = [op |-> op, cam |-> c]
    /\ repeat' = FALSE
    /\ UNCHANGED <<cam, created, lastUpdate>>

PerspectiveUpdate(c, width, height) ==
    /\ cam[c].variant = "PerspectiveProjection"
    /\ cam' = [cam EXCEPT ![c] = PerspectiveProjection_update(cam[c], width, height)]
    /\ Updated(c, width, height)

PerspectiveGetProjectionMatrix(c) ==
    /\ cam[c].variant = "PerspectiveProjection"
    /\ ret' = PerspectiveProjection_get_projection_matrix(cam[c])
    /\ Queried(c, "get_projection_matrix")

PerspectiveDepthCalculation(c) ==
    /\ cam[c].variant = "PerspectiveProjection"
    /\ ret' = [fn |-> "depth_calculation",
               mode |-> PerspectiveProjection_depth_calculation(cam[c])]
    /\ Queried(c, "depth_calculation")

OrthographicUpdate(c, width, height) ==
    /\ cam[c].variant = "OrthographicProjection"
    /\ cam' = [cam EXCEPT ![c] = OrthographicProjection_update(cam[c], width, height)]
    /\ Updated(c, width, height)

OrthographicGetProjectionMatrix(c) ==
    /\ cam[c].variant = "OrthographicProjection"
    /\ ret' = OrthographicProjection_get_projection_matrix(cam[c])
    /\ Queried(c, "get_projection_matrix")

OrthographicDepthCalculation(c) ==
    /\ cam[c].variant = "OrthographicProjection"
    /\ ret' = [fn |-> "depth_calculation",
               mode |-> OrthographicProjection_depth_calculation(cam[c])]
    /\ Queried(c, "depth_calculation")

ScaledUpdate(c, width, height) ==
    /\ cam[c].variant = "ScaledOrthographicProjection"
    /\ cam' = [cam EXCEPT ![c] = ScaledOrthographicProjection_update(cam[c], width, height)]
    /\ Updated(c, width, height)

ScaledGetProjectionMatrix(c) ==
    /\ cam[c].variant = "ScaledOrthographicProjection"
    /\ ret' = ScaledOrthographicProjection_get_projection_matrix(cam[c])
    /\ Queried(c, "get_projection_matrix")

ScaledDepthCalculation(c) ==
    /\ cam[c].variant = "ScaledOrthographicProjection"
    /\ ret' = [fn |-> "depth_calculation",
               mode |-> ScaledOrthographicProjection_depth_calculation(cam[c])]
    /\ Queried(c, "depth_calculation")

Next ==
    \/ \E c \in Cameras, d \in Dims : PerspectiveUpdate(c, d[1], d[2])
    \/ \E c \in Cameras : PerspectiveGetProjectionMatrix(c)
    \/ \E c \in Cameras : PerspectiveDepthCalculation(c)
    \/ \E c \in Cameras, d \in Dims : OrthographicUpdate(c, d[1], d[2])
    \/ \E c \in Cameras : OrthographicGetProjectionMatrix(c)
    \/ \E c \in Cameras : OrthographicDepthCalculation(c)
    \/ \E c \in Cameras, d \in Dims : ScaledUpdate(c, d[1], d[2])
    \/ \E c \in Cameras : ScaledGetProjectionMatrix(c)
    \/ \E c \in Cameras : ScaledDepthCalculation(c)

Spec == Init /\ [][Next]_vars
----------------------------------------------------------------------------
\* Properties

\* The arguments of the last update of camera c.
W(c) == lastUpdate[c].w

H(c) == lastUpdate[c].h

\* The step is a call of update on camera c.
UpdateStep(c) == last'.op = "update" /\ last'.cam = c

\* The configuration fields of a projection (the fields update does not own).
ConfigOf(p) ==
    CASE p.variant = "PerspectiveProjection" -> <<p.variant, p.fov, p.near, p.far>>
      [] p.variant = "OrthographicProjection" ->
           <<p.variant, p.near, p.far, p.window_origin>>
      [] p.variant = "ScaledOrthographicProjection" ->
           <<p.variant, p.scale, p.near, p.far, p.window_origin, p.base_axis>>

\* What get_projection_matrix hands to the matrix builder for projection p.
MatrixOf(p) ==
    CASE p.variant = "PerspectiveProjection" ->
           PerspectiveProjection_get_projection_matrix(p)
      [] p.variant = "OrthographicProjection" ->
           OrthographicProjection_get_projection_matrix(p)
      [] p.variant = "ScaledOrthographicProjection" ->
           ScaledOrthographicProjection_get_projection_matrix(p)

\* The half-extents of the (window_origin, base_axis) table.
HorizontalExtent(p) ==
    IF p.base_axis = "Vertical" THEN FMul(p.aspect_ratio, p.scale) ELSE p.scale

VerticalExtent(p) ==
    IF p.base_axis = "Vertical" THEN p.scale ELSE FMul(p.aspect_ratio, p.scale)

\* C1: whatever the fields hold and whatever updates came before,
\* depth_calculation returns Distance for a PerspectiveProjection and
\* ZDifference for an OrthographicProjection or ScaledOrthographicProjection.
C1_DepthCalculationFixed ==
    last.op = "depth_calculation" =>
        ret.mode = IF cam[last.cam].variant = "PerspectiveProjection"
                   THEN "Distance" ELSE "ZDifference"

\* A PerspectiveProjection whose update made the aspect ratio infinite is
\* asked for its depth mode.
C1_Witness ==
    /\ last.op = "depth_calculation"
    /\ cam[last.cam].variant = "PerspectiveProjection"
    /\ lastUpdate[last.cam].set
    /\ cam[last.cam].aspect_ratio = Inf(FALSE)
    /\ ret.mode = "Distance"

\* C2: for positive width and height, PerspectiveProjection::update sets
\* aspect_ratio to width / height and leaves fov, near and far as they were.
C2_PerspectiveUpdate ==
    [][\A c \in Cameras :
        (/\ UpdateStep(c)
         /\ cam[c].variant = "PerspectiveProjection"
         /\ IsPositive(lastUpdate'[c].w)
         /\ IsPositive(lastUpdate'[c].h))
        => /\ cam'[c].aspect_ratio = FDiv(lastUpdate'[c].w, lastUpdate'[c].h)
           /\ cam'[c].fov = cam[c].fov
           /\ cam'[c].near = cam[c].near
           /\ cam'[c].far = cam[c].far]_vars

\* Scenario A: the default PerspectiveProjection after update(800.0, 600.0)
\* has aspect_ratio 800/600 (0x3FAAAAAB) and fov still PI/4.
C2_Witness ==
    \E c \in Cameras :
        /\ created[c] = PerspectiveProjection_default
        /\ last = [op |-> "update", cam |-> c]
        /\ W(c) = F(800) /\ H(c) = F(600)
        /\ cam[c].aspect_ratio = Fin(FALSE, 11184811, 0 - 23)
        /\ cam[c].fov = PI_4

\* C3: for positive width and height, after OrthographicProjection::update
\* the four side bounds are, with Center, right = width/2, left = -right,
\* top = height/2, bottom = -top, and with BottomLeft, left = bottom = 0,
\* right = width, top = height.
C3_OrthographicBounds ==
    \A c \in Cameras :
        (/\ cam[c].variant = "OrthographicProjection"
         /\ lastUpdate[c].set
         /\ IsPositive(W(c)) /\ IsPositive(H(c)))
        => IF cam[c].window_origin = "Center"
           THEN /\ cam[c].right = FDiv(W(c), F(2))
                /\ cam[c].left = FNeg(cam[c].right)
                /\ cam[c].top = FDiv(H(c), F(2))
                /\ cam[c].bottom = FNeg(cam[c].top)
           ELSE /\ cam[c].left = F(0)
                /\ cam[c].bottom = F(0)
                /\ cam[c].right = W(c)
                /\ cam[c].top = H(c)

\* Scenario B on one camera (default, Center, update(1920.0, 1080.0)) gives
\* -960, 960, 540, -540.
C3_Witness ==
    \E c \in Cameras :
        /\ created[c] = OrthographicProjection_default
        /\ W(c) = F(1920) /\ H(c) = F(1080) /\ lastUpdate[c].set
        /\ cam[c].left = F(0 - 960) /\ cam[c].right = F(960)
        /\ cam[c].top = F(540) /\ cam[c].bottom = F(0 - 540)

\* C4: after any sequence of update calls an OrthographicProjection still
\* holds the near, far and window_origin it was constructed with.
C4_OrthographicConfigKept ==
    \A c \in Cameras :
        cam[c].variant = "OrthographicProjection"
        => /\ cam[c].near = created[c].near
           /\ cam[c].far = created[c].far
           /\ cam[c].window_origin = created[c].window_origin

\* An OrthographicProjection with a non-default near plane and origin has
\* been updated twice in a row and its bounds have been overwritten.
C4_Witness ==
    \E c \in Cameras :
        /\ cam[c].variant = "OrthographicProjection"
        /\ repeat /\ last.cam = c
        /\ cam[c].near = F(0 - 1)
        /\ cam[c].window_origin = "BottomLeft"
        /\ cam[c].right /= created[c].right

\* C5: ScaledOrthographicProjection::update(w, h) sets aspect_ratio to w/h
\* when base_axis is Vertical and to h/w when it is Horizontal, and leaves
\* scale, near, far, window_origin and base_axis as they were.
C5_ScaledUpdate ==
    [][\A c \in Cameras :
        (UpdateStep(c) /\ cam[c].variant = "ScaledOrthographicProjection")
        => /\ cam'[c].aspect_ratio =
                IF cam[c].base_axis = "Vertical"
                THEN FDiv(lastUpdate'[c].w, lastUpdate'[c].h)
                ELSE FDiv(lastUpdate'[c].h, lastUpdate'[c].w)
           /\ cam'[c].scale = cam[c].scale
           /\ cam'[c].near = cam[c].near
           /\ cam'[c].far = cam[c].far
           /\ cam'[c].window_origin = cam[c].window_origin
           /\ cam'[c].base_axis = cam[c].base_axis]_vars

\* A Horizontal projection after update(1000.0, 500.0) holds 500/1000 = 0.5.
C5_Witness ==
    \E c \in Cameras :
        /\ cam[c].variant = "ScaledOrthographicProjection"
        /\ cam[c].base_axis = "Horizontal"
        /\ last = [op |-> "update", cam |-> c]
        /\ W(c) = F(1000) /\ H(c) = F(500)
        /\ cam[c].aspect_ratio = Fin(FALSE, 1, 0 - 1)
        /\ cam[c].scale = F(MaxScale)

\* C6: with window_origin Center, ScaledOrthographicProjection's
\* get_projection_matrix calls the orthographic builder with
\* (-hx, hx, -vx, vx, near, far), where hx and vx are the half-extents of the
\* table: aspect_ratio*scale and scale for Vertical, scale and
\* aspect_ratio*scale for Horizontal.
C6_ScaledCenterBounds ==
    (/\ last.op = "get_projection_matrix"
     /\ cam[last.cam].variant = "ScaledOrthographicProjection"
     /\ cam[last.cam].window_origin = "Center")
    => LET p == cam[last.cam] IN
       /\ ret.fn = "orthographic_rh"
       /\ ret.args = <<FNeg(HorizontalExtent(p)), HorizontalExtent(p),
                       FNeg(VerticalExtent(p)), VerticalExtent(p),
                       p.near, p.far>>

\* Scenario C: the default ScaledOrthographicProjection after
\* update(1000.0, 500.0) builds the matrix of (-2, 2, -1, 1, 0, 1000).
C6_Witness ==
    /\ last.op = "get_projection_matrix"
    /\ created[last.cam] = ScaledOrthographicProjection_default
    /\ W(last.cam) = F(1000) /\ H(last.cam) = F(500)
    /\ cam[last.cam].aspect_ratio = F(2)
    /\ ret.args = <<F(0 - 2), F(2), F(0 - 1), F(1), F(0), F(1000)>>

\* C7: with window_origin BottomLeft, ScaledOrthographicProjection's
\* get_projection_matrix calls the orthographic builder with
\* (0, 2*hx, 0, 2*vx, near, far), hx and vx being the half-extents of the
\* table, so that the view volume is as wide and as high as with Center.
C7_ScaledBottomLeftBounds ==
    (/\ last.op = "get_projection_matrix"
     /\ cam[last.cam].variant = "ScaledOrthographicProjection"
     /\ cam[last.cam].window_origin = "BottomLeft")
    => LET p == cam[last.cam] IN
       /\ ret.fn = "orthographic_rh"
       /\ ret.args = <<F(0), FMul(F(2), HorizontalExtent(p)),
                       F(0), FMul(F(2), VerticalExtent(p)),
                       p.near, p.far>>

\* C8: on every variant, a second update(w, h) right after update(w, h) on
\* the same projection leaves every field as the first call left it.
C8_UpdateIdempotent ==
    [][\A c \in Cameras : (UpdateStep(c) /\ repeat') => cam'[c] = cam[c]]_vars

\* A projection has just been updated twice in a row with the same size, and
\* the update changed what it was constructed with.
C8_Witness ==
    /\ repeat
    /\ last.op = "update"
    /\ cam[last.cam] /= created[last.cam]
    /\ W(last.cam) = F(1920) /\ H(last.cam) = F(1080)

\* C9 as stated: after update(w, 0.0) with positive w the aspect ratio is
\* infinite on every variant that has one, whatever base_axis is.
C9_Original ==
    \A c \in Cameras :
        (/\ lastUpdate[c].set /\ IsPositive(W(c)) /\ H(c) = F(0)
         /\ cam[c].variant /= "OrthographicProjection")
        => ~IsFinite(cam[c].aspect_ratio)

\* C9 amended: after update(w, 0.0) with positive w the aspect ratio is
\* +infinity on a PerspectiveProjection and on a ScaledOrthographicProjection
\* with base_axis Vertical; with base_axis Horizontal it is 0.0/w = 0.0, a
\* finite value; an OrthographicProjection has no aspect ratio and its four
\* bounds are finite.
C9_ZeroHeight ==
    \A c \in Cameras :
        (lastUpdate[c].set /\ IsPositive(W(c)) /\ H(c) = F(0))
        => CASE cam[c].variant = "PerspectiveProjection" ->
                  cam[c].aspect_ratio = Inf(FALSE)
             [] cam[c].variant = "ScaledOrthographicProjection" ->
                  IF cam[c].base_axis = "Vertical"
                  THEN cam[c].aspect_ratio = Inf(FALSE)
                  ELSE cam[c].aspect_ratio = F(0)
             [] cam[c].variant = "OrthographicProjection" ->
                  /\ IsFinite(cam[c].left) /\ IsFinite(cam[c].right)
                  /\ IsFinite(cam[c].bottom) /\ IsFinite(cam[c].top)

\* A Horizontal ScaledOrthographicProjection has gone through update(1.0, 0.0)
\* and holds the aspect ratio 0.0.
C9_Witness ==
    \E c \in Cameras :
        /\ cam[c].variant = "ScaledOrthographicProjection"
        /\ cam[c].base_axis = "Horizontal"
        /\ last = [op |-> "update", cam |-> c]
        /\ W(c) = F(1) /\ H(c) = F(0)
        /\ cam[c].aspect_ratio = F(0)

\* C10: two projections that agree on their configuration fields, whatever
\* their derived fields were, hold the same fields and hand the same
\* arguments to the matrix builder once each has been updated, through any
\* sequence of updates, last with the same (width, height).
C10_UpdateDeterminesDerived ==
    \A c1, c2 \in Cameras :
        (/\ ConfigOf(created[c1]) = ConfigOf(created[c2])
         /\ lastUpdate[c1].set /\ lastUpdate[c2].set
         /\ W(c1) = W(c2) /\ H(c1) = H(c2))
        => /\ cam[c1] = cam[c2]
           /\ MatrixOf(cam[c1]) = MatrixOf(cam[c2])

\* Two OrthographicProjection values constructed with different bounds, the
\* second updated twice in a row, agree after a last update(800.0, 600.0).
C10_Witness ==
    /\ cam[1].variant = "OrthographicProjection"
    /\ created[1] /= created[2]
    /\ ConfigOf(created[1]) = ConfigOf(created[2])
    /\ repeat /\ last.cam = 2
    /\ lastUpdate[1] = [set |-> TRUE, w |-> F(800), h |-> F(600)]
    /\ lastUpdate[2] = lastUpdate[1]
    /\ cam[1] = cam[2]
====
